---- MODULE Spec2Model ----
(***************************************************************************)
(* kzip 0.0.7 (src/src/main.rs): the archive writer (main's archive        *)
(* branch, read_dir, generate_buffer, get_number_of_files) and the reader  *)
(* (main's list and extract branches) over a small file system.            *)
(*                                                                         *)
(* Strings and file contents are sequences of bytes (0..255); a path       *)
(* string is resolved against the working directory into a sequence of     *)
(* segments.  An archive is the byte sequence the bytebuffer crate         *)
(* produces (big-endian integers, strings prefixed by a u32 length).       *)
(* The verbose flag is off throughout (it only adds output).               *)
(*                                                                         *)
(* A behaviour is a short shell session in one working directory: at most  *)
(* one archive command (kzip -i T|T/a -o o|o.kzip), then at most one read  *)
(* (kzip -l -i o.kzip, or kzip -x -i o.kzip -o out).  The file system      *)
(* starts either as a tree of files below T or with a file already at      *)
(* o.kzip, so the reader meets both archives the writer made and archives  *)
(* made by hand.                                                           *)
(***************************************************************************)
EXTENDS Integers, Sequences, FiniteSets, TLC

\* ------------------------------------------------------------- bounds
\* How many of CandidatePaths (the places below T) may hold a file in the
\* initial file system.
MaxFiles == 3
\* Longest file content in the initial file system.
MaxContentLen == 1

\* ------------------------------------------------------------ strings
SEP == <<47>>
DOT == <<46>>
DOTDOT == <<46, 46>>
KZIP_SUFFIX == <<46, 107, 122, 105, 112>>
VERSION == <<48, 46, 48, 46, 55>>
MAGIC == <<12, 10, 116>>
Name_T == <<84>>
Name_a == <<97>>
Name_b == <<98>>
Name_c == <<99>>
Name_d == <<100>>
Name_e == <<101>>
Name_o == <<111>>
Name_x == <<120>>
Name_out == <<111, 117, 116>>
Name_okzip == Name_o \o KZIP_SUFFIX

Join(a, b) == a \o SEP \o b

EndsWith(s, suf) ==
  /\ Len(s) >= Len(suf)
  /\ SubSeq(s, Len(s) - Len(suf) + 1, Len(s)) = suf

IsPrefix(p, q) == Len(p) <= Len(q) /\ SubSeq(q, 1, Len(p)) = p

RECURSIVE SplitFrom(_, _, _)
SplitFrom(s, i, cur) ==
  IF i > Len(s) THEN <<cur>>
  ELSE IF s[i] = 47 THEN <<cur>> \o SplitFrom(s, i + 1, <<>>)
  ELSE SplitFrom(s, i + 1, Append(cur, s[i]))

\* str.split(MAIN_SEPARATOR)
Split(s) == SplitFrom(s, 1, <<>>)

RECURSIVE JoinSegs(_)
JoinSegs(segs) ==
  IF Len(segs) = 0 THEN <<>>
  ELSE IF Len(segs) = 1 THEN segs[1]
  ELSE segs[1] \o SEP \o JoinSegs(Tail(segs))

\* ---------------------------------------------------- path resolution
RECURSIVE Normalize(_, _)
Normalize(segs, acc) ==
  IF Len(segs) = 0 THEN acc
  ELSE LET s == Head(segs) IN
       IF s = <<>> \/ s = DOT THEN Normalize(Tail(segs), acc)
       ELSE IF s = DOTDOT
            THEN IF Len(acc) > 0 /\ acc[Len(acc)] # DOTDOT
                 THEN Normalize(Tail(segs), SubSeq(acc, 1, Len(acc) - 1))
                 ELSE Normalize(Tail(segs), Append(acc, DOTDOT))
            ELSE Normalize(Tail(segs), Append(acc, s))

\* The place a path string names, as segments from the working directory;
\* leading ".." segments are places above it.
Resolve(str) == Normalize(Split(str), <<>>)

OnlyDotDot(p) == \A i \in 1..Len(p) : p[i] = DOTDOT

Parent(p) == SubSeq(p, 1, Len(p) - 1)

Prefixes(p) == { SubSeq(p, 1, k) : k \in 1..Len(p) }

\* ---------------------------------------------------------- integers
Saturated == 256 * 256 * 256

U32(n) == << (n \div (256 * 256 * 256)) % 256, (n \div (256 * 256)) % 256,
             (n \div 256) % 256, n % 256 >>

U64(n) == <<0, 0, 0, 0>> \o U32(n)

\* Big-endian value of a byte sequence, saturating at Saturated (larger
\* than any buffer of the model).
RECURSIVE BEValue(_)
BEValue(bs) ==
  IF Len(bs) = 0 THEN 0
  ELSE LET hi == BEValue(SubSeq(bs, 1, Len(bs) - 1)) IN
       IF hi * 256 + bs[Len(bs)] >= Saturated THEN Saturated
       ELSE hi * 256 + bs[Len(bs)]

\* -------------------------------------------------------- ByteBuffer
WriteString(s) == U32(Len(s)) \o s

Fail(pos) == [ok |-> FALSE, val |-> 0, pos |-> pos]

ReadU8(d, p) ==
  IF p + 1 > Len(d) THEN Fail(p)
  ELSE [ok |-> TRUE, val |-> d[p + 1], pos |-> p + 1]

ReadU32(d, p) ==
  IF p + 4 > Len(d) THEN Fail(p)
  ELSE [ok |-> TRUE, val |-> BEValue(SubSeq(d, p + 1, p + 4)), pos |-> p + 4]

ReadU64(d, p) ==
  IF p + 8 > Len(d) THEN Fail(p)
  ELSE [ok |-> TRUE, val |-> BEValue(SubSeq(d, p + 1, p + 8)), pos |-> p + 8]

ReadBytes(d, p, n) ==
  IF p + n > Len(d) THEN Fail(p)
  ELSE [ok |-> TRUE, val |-> SubSeq(d, p + 1, p + n), pos |-> p + n]

\* String::from_utf8 on the bytes of the model: ASCII is valid, a byte
\* of 128 or more (no multi-byte sequence is modelled) is not.
ValidUtf8(s) == \A i \in 1..Len(s) : s[i] < 128

\* read_string: the u32 length, then that many bytes, then from_utf8.  The
\* position is kept wherever the failing step left it.
ReadString(d, p) ==
  LET n == ReadU32(d, p) IN
  IF ~n.ok THEN Fail(p)
  ELSE LET b == ReadBytes(d, n.pos, n.val) IN
       IF ~b.ok THEN Fail(n.pos)
       ELSE IF ~ValidUtf8(b.val) THEN Fail(b.pos)
       ELSE b

\* ------------------------------------------------------------- codec
ZHDR == <<120, 218>>

\* encode: stands for zlib at Compression::best(): a two-byte header, then
\* the data transformed byte by byte (never the identity, never the same
\* length as its input).
Encode(bytes) == ZHDR \o [i \in 1..Len(bytes) |-> 255 - bytes[i]]

\* decompress_vec(..).unwrap(): nothing to do on an empty input, an error on a
\* stream that does not start with the header.
DecodeOk(bytes) == Len(bytes) = 0 \/ (Len(bytes) >= 2 /\ SubSeq(bytes, 1, 2) = ZHDR)

\* decode: decompress_vec into a vector of capacity file_size: at most
\* file_size bytes come out.
Decode(bytes, file_size) ==
  LET n == IF Len(bytes) - 2 < file_size THEN Len(bytes) - 2 ELSE file_size IN
  IF Len(bytes) < 2 \/ file_size = 0 THEN <<>>
  ELSE [i \in 1..n |-> 255 - bytes[i + 2]]

\* sha256::digest, as an injective tag of the content.
Digest(content) == <<"sha256", content>>

\* ------------------------------------------------------- file system
\* fs = [files |-> function from a resolved path to the file there,
\*       dirs  |-> set of resolved paths that are directories]
FileRec(content, created, modified) ==
  [content |-> content, created |-> created, modified |-> modified]

IsFile(f, p) == p \in DOMAIN f.files

IsDir(f, p) == p \in f.dirs \/ OnlyDotDot(p)

Exists(f, p) == IsFile(f, p) \/ IsDir(f, p)

\* the names fs::read_dir yields for directory p
Children(f, p) ==
  { q[Len(p) + 1] : q \in { r \in (DOMAIN f.files) \cup f.dirs :
                             Len(r) > Len(p) /\ IsPrefix(p, r) } }

\* fs::read(path)
FsReadOk(f, str) == IsFile(f, Resolve(str))

FsRead(f, str) == f.files[Resolve(str)].content

\* File::create(path): Ok iff the parent is a directory and the path is
\* not one; the file is created or truncated.
FileCreateOk(f, str) ==
  LET p == Resolve(str) IN
  /\ Len(p) > 0
  /\ ~OnlyDotDot(p)
  /\ ~IsDir(f, p)
  /\ IsDir(f, Parent(p))

FileCreate(f, str) ==
  LET p == Resolve(str)
      created == IF IsFile(f, p) THEN f.files[p].created ELSE 3
  IN [f EXCEPT !.files = (p :> FileRec(<<>>, created, 3)) @@ f.files]

\* file.write(&bytes) on the file just created at path
FileWrite(f, str, bytes) ==
  LET p == Resolve(str) IN
  [f EXCEPT !.files = (p :> [f.files[p] EXCEPT !.content = bytes]) @@ f.files]

\* create_dir_if_not_exists: "ok" (with the directories made) or "exit"
\* (exit(1)): metadata Ok leaves everything as it is.
CreateDirOutcome(f, str) ==
  LET p == Resolve(str) IN
  IF Exists(f, p) THEN "ok"
  ELSE IF \E q \in Prefixes(p) : IsFile(f, q) THEN "exit"
  ELSE "ok"

CreateDir(f, str) ==
  LET p == Resolve(str) IN
  IF Exists(f, p) \/ (\E q \in Prefixes(p) : IsFile(f, q)) THEN f
  ELSE [f EXCEPT !.dirs = f.dirs \cup { q \in Prefixes(p) : ~OnlyDotDot(q) }]

\* ------------------------------------------------ get_number_of_files
RECURSIVE GetNumberOfFiles(_, _)
RECURSIVE CountEntries(_, _, _)

\* the for loop over the directory's entries: fs::metadata(dir_name) is
\* Ok and a directory for every entry, so each entry is counted by the
\* recursive call on it
CountEntries(f, dir_name, todo) ==
  IF todo = {} THEN 0
  ELSE LET e == CHOOSE x \in todo : TRUE IN
       GetNumberOfFiles(f, Join(dir_name, e))
         + CountEntries(f, dir_name, todo \ {e})

GetNumberOfFiles(f, dir_name) ==
  IF IsDir(f, Resolve(dir_name))
  THEN CountEntries(f, dir_name, Children(f, Resolve(dir_name)))
  ELSE IF IsFile(f, Resolve(dir_name)) THEN 1 ELSE 0

\* ---------------------------------------------------- generate_buffer
\* hashes.contains_key(&file_hash), for a non-directory
IsDuplicate(hashes, file_hash, is_dir) ==
  IF ~is_dir THEN file_hash \in DOMAIN hashes ELSE FALSE

\* a writer that numbers its unique records from 1
NextOrdinalFromOne(hashes) == Cardinality(DOMAIN hashes) + 1

\* hashes.len(): the ordinal the next unique content is registered with
NextOrdinal(hashes) == Cardinality(DOMAIN hashes)

\* the bytes generate_buffer appends for one file
EntryRecord(file_name, content, created_at, modified, hashes, is_dir) ==
  LET file_hash == Digest(content)
      is_duplicate == IsDuplicate(hashes, file_hash, is_dir)
  IN <<IF is_duplicate THEN 1 ELSE 0>>
       \o WriteString(file_name) \o U64(created_at) \o U64(modified)
       \o (IF is_duplicate THEN U32(hashes[file_hash])
           ELSE U64(Len(content)) \o U64(Len(Encode(content))) \o Encode(content))

\* the index after generate_buffer
HashesAfter(content, hashes, is_dir) ==
  LET file_hash == Digest(content) IN
  IF IsDuplicate(hashes, file_hash, is_dir) \/ is_dir THEN hashes
  ELSE (file_hash :> NextOrdinal(hashes)) @@ hashes

ArchiveHeader(nof) == MAGIC \o WriteString(VERSION) \o U32(nof)

\* ------------------------------------------------------------- state
VARIABLES
  fs,       \* the file system
  pre,      \* the file system when the running (or last) command started
  ran,      \* the args of the commands started so far, in order
  pc,       \* "shell" between commands, else the position in main
  args,     \* [mode, input, output] of the running (or last) command
  buffer,   \* writer: the ByteBuffer's bytes
  hashes,   \* writer: content hash -> ordinal
  stack,    \* writer: the active read_dir calls, innermost last
  session,  \* writer: the [path, content] generate_buffer was called with
  nof,      \* writer: the count in the header; reader: records left
  data,     \* reader: the archive's bytes
  rpos,     \* reader: the ByteBuffer's read position
  index,    \* reader: unique records extracted so far
  cached,   \* reader: ordinal -> path string written
  total_length,
  total_unpacked_length,
  og_nof,   \* reader: the count read from the header
  skipped,  \* reader: records whose read_string failed
  exit_code,\* of the last command: 0, 1, 101 (a panic); -1 while none ended
  stdout,   \* the messages of the running (or last) command
  stderr    \* why the last command panicked, or "none"

vars == <<fs, pre, ran, pc, args, buffer, hashes, stack, session, nof, data,
          rpos, index, cached, total_length, total_unpacked_length, og_nof,
          skipped, exit_code, stdout, stderr>>

writerVars == <<buffer, hashes, stack, session>>

readerVars == <<data, rpos, index, cached, total_length,
                total_unpacked_length, og_nof, skipped>>

EmptyMap == [x \in {} |-> 0]

\* ---------------------------------------------- initial file systems
CandidatePaths ==
  << <<Name_T, Name_a>>, <<Name_T, Name_b>>, <<Name_T, Name_c, Name_d>>,
     <<Name_T, Name_c, Name_e>> >>

NumCandidates == IF MaxFiles < Len(CandidatePaths) THEN MaxFiles
                 ELSE Len(CandidatePaths)

Paths == { CandidatePaths[i] : i \in 1..NumCandidates }

\* the contents a file may start with: one per length, bytes h, i, j, ...
Contents == { [i \in 1..n |-> 103 + n] : n \in 0..MaxContentLen }

TreeDirs == UNION { { SubSeq(p, 1, k) : k \in 1..(Len(p) - 1) } : p \in Paths }
              \cup { <<Name_T>> }

Hello == <<104>>

\* what the working directory holds beside T: nothing, or a file named a
Beside == { EmptyMap, <<Name_a>> :> FileRec(Hello, 1, 2) }

\* a tree of readable regular files, nothing at the archive's path
TreeFs ==
  { [files |-> [p \in present |-> FileRec(choice[p], 1, 2)] @@ beside,
     dirs |-> TreeDirs] :
      present \in SUBSET Paths, choice \in [Paths -> Contents], beside \in Beside }

\* ------------------------------------------- archives made by hand
UniqueRecord(path, raw_size, payload) ==
  <<0>> \o WriteString(path) \o U64(1) \o U64(2)
        \o U64(raw_size) \o U64(Len(payload)) \o payload

DuplicateRecord(path, reference_index) ==
  <<1>> \o WriteString(path) \o U64(1) \o U64(2) \o U32(reference_index)

ValidRecord == UniqueRecord(Name_a, 1, Encode(Hello))

MagicBytes == {0, 10, 12, 116, 128, 138, 140, 255}

\* every triple of leading bytes over MagicBytes, before one valid record
HeaderArchives ==
  { <<m1, m2, m3>> \o WriteString(VERSION) \o U32(1) \o ValidRecord :
      m1 \in MagicBytes, m2 \in MagicBytes, m3 \in MagicBytes }

EscapingPath == DOTDOT \o SEP \o Name_x
DeepEscapingPath == DOTDOT \o SEP \o DOTDOT \o SEP \o Name_e \o SEP \o Name_x
DotPath == DOT \o SEP \o Name_x

\* bodies after a valid header: [n |-> entry_count, body |-> bytes]
Bodies ==
  { [n |-> 0, body |-> <<>>],
    [n |-> 2, body |-> ValidRecord \o DuplicateRecord(Name_b, 0)],
    [n |-> 1, body |-> UniqueRecord(EscapingPath, 1, Encode(Hello))],
    [n |-> 2, body |-> UniqueRecord(DeepEscapingPath, 1, Encode(Hello))
                         \o DuplicateRecord(EscapingPath, 0)],
    [n |-> 1, body |-> UniqueRecord(DotPath, 1, Encode(Hello))],
    \* a path length larger than what is left
    [n |-> 1, body |-> <<0>> \o U32(99)],
    \* a path that is not UTF-8
    [n |-> 1, body |-> <<0>> \o U32(1) \o <<255>>],
    \* a failed path, then bytes the next iteration reads as a record
    [n |-> 2, body |-> <<0>> \o U32(99) \o ValidRecord],
    \* a record cut short in its payload
    [n |-> 1, body |-> SubSeq(ValidRecord, 1, Len(ValidRecord) - 1)],
    \* a record cut short in its timestamps
    [n |-> 1, body |-> <<0>> \o WriteString(Name_a) \o U64(1)],
    \* a duplicate with nothing before it
    [n |-> 1, body |-> DuplicateRecord(Name_a, 0)],
    \* a unique record of nothing, stored as nothing
    [n |-> 1, body |-> UniqueRecord(Name_a, 0, <<>>)],
    \* fewer records than the header counts
    [n |-> 2, body |-> ValidRecord],
    \* a payload that is no compressed stream
    [n |-> 1, body |-> UniqueRecord(Name_a, 1, <<1, 2, 3>>)] }

BodyArchives ==
  { MAGIC \o WriteString(VERSION) \o U32(b.n) \o b.body : b \in Bodies }
    \cup { <<12, 10>>, MAGIC, MAGIC \o WriteString(VERSION) }

\* a file already at the archive's path, beside a one-file tree
CraftedFs ==
  { [files |-> (<<Name_okzip>> :> FileRec(bytes, 1, 2))
                 @@ (<<Name_T, Name_a>> :> FileRec(Hello, 1, 2)),
     dirs |-> { <<Name_T>> }] : bytes \in HeaderArchives \cup BodyArchives }

Init ==
  /\ fs \in TreeFs \cup CraftedFs
  /\ pre = fs
  /\ ran = <<>>
  /\ pc = "shell"
  /\ args = [mode |-> "none", input |-> <<>>, output |-> <<>>]
  /\ buffer = <<>>
  /\ hashes = EmptyMap
  /\ stack = <<>>
  /\ session = <<>>
  /\ nof = 0
  /\ data = <<>>
  /\ rpos = 0
  /\ index = 0
  /\ cached = EmptyMap
  /\ total_length = 0
  /\ total_unpacked_length = 0
  /\ og_nof = 0
  /\ skipped = 0
  /\ exit_code = -1
  /\ stdout = {}
  /\ stderr = "none"

\* ------------------------------------------------------ ends of a run
\* exit(code), or a panic (code 101, with its reason)
Exit(code, out, why) ==
  /\ pc' = "shell"
  /\ exit_code' = code
  /\ stdout' = out
  /\ stderr' = why

Panic(out, why) == Exit(101, out, why)

\* --------------------------------------------------- writer (archive)
\* Path::new(&input).file_name()
FileNameOf(input) == LET segs == Split(input) IN segs[Len(segs)]

ArchiveInputs == { Name_T, Join(Name_T, Name_a) }

ArchiveOutputs == { Name_o, Name_okzip }

\* main, lines 166-198: the output file, the header, and either the start
\* of the walk or the single file
ArchiveStart(input, out_arg) ==
  /\ pc = "shell"
  /\ ran = <<>>
  /\ LET output == IF ~EndsWith(out_arg, KZIP_SUFFIX) THEN out_arg \o KZIP_SUFFIX
                   ELSE out_arg
         n == GetNumberOfFiles(fs, input)
         f1 == FileCreate(fs, output)
         header == ArchiveHeader(n)
         in_path == Resolve(input)
         file_name == FileNameOf(input)
     IN /\ args' = [mode |-> "archive", input |-> input, output |-> output]
        /\ ran' = Append(ran, args')
        /\ pre' = fs
        /\ nof' = n
        /\ UNCHANGED readerVars
        /\ IF ~FileCreateOk(fs, output)
           THEN /\ Panic({}, "create")
                /\ UNCHANGED <<fs, writerVars>>
           ELSE /\ fs' = f1
                /\ exit_code' = -1
                /\ stdout' = {}
                /\ stderr' = "none"
                /\ IF IsDir(f1, in_path)
                   THEN /\ pc' = "walk"
                        /\ buffer' = header
                        /\ hashes' = EmptyMap
                        /\ session' = <<>>
                        /\ stack' = <<[dir |-> input,
                                       todo |-> Children(f1, in_path)]>>
                   ELSE /\ pc' = "write"
                        /\ stack' = <<>>
                        /\ IF IsFile(f1, in_path) /\ FsReadOk(f1, file_name)
                           THEN LET content == FsRead(f1, file_name)
                                    meta == f1.files[in_path]
                                IN /\ buffer' = header \o
                                       EntryRecord(file_name, content, meta.created,
                                                   meta.modified, EmptyMap, FALSE)
                                   /\ hashes' = HashesAfter(content, EmptyMap, FALSE)
                                   /\ session' = <<[path |-> file_name,
                                                     content |-> content]>>
                           ELSE /\ buffer' = header
                                /\ hashes' = EmptyMap
                                /\ session' = <<>>

\* read_dir, one turn of its for loop (lines 362-415): a file goes through
\* generate_buffer, a directory starts a nested read_dir
ReadDirEntry ==
  /\ pc = "walk"
  /\ Len(stack) > 0
  /\ LET top == stack[Len(stack)] IN
     \E file_name \in top.todo :
       LET path == Join(top.dir, file_name)
           rest == [stack EXCEPT ![Len(stack)].todo = top.todo \ {file_name}]
       IN IF FsReadOk(fs, path)
          THEN LET content == FsRead(fs, path)
                   meta == fs.files[Resolve(path)]
               IN /\ buffer' = buffer \o EntryRecord(path, content, meta.created,
                                                     meta.modified, hashes, FALSE)
                  /\ hashes' = HashesAfter(content, hashes, FALSE)
                  /\ session' = Append(session, [path |-> path,
                                                  content |-> content])
                  /\ stack' = rest
                  /\ stdout' = stdout
          ELSE IF IsDir(fs, Resolve(path))
          THEN /\ stack' = Append(rest, [dir |-> path,
                                         todo |-> Children(fs, Resolve(path))])
               /\ UNCHANGED <<buffer, hashes, session, stdout>>
          ELSE /\ stack' = rest
               /\ stdout' = stdout \cup {"could not read file"}
               /\ UNCHANGED <<buffer, hashes, session>>
  /\ UNCHANGED <<fs, pre, ran, pc, args, nof, readerVars, exit_code, stderr>>

\* read_dir returns when its loop is over (line 416)
ReadDirReturn ==
  /\ pc = "walk"
  /\ Len(stack) > 0
  /\ stack[Len(stack)].todo = {}
  /\ stack' = SubSeq(stack, 1, Len(stack) - 1)
  /\ pc' = IF Len(stack) = 1 THEN "write" ELSE "walk"
  /\ UNCHANGED <<fs, pre, ran, args, buffer, hashes, session, nof, readerVars,
                 exit_code, stdout, stderr>>

\* main, lines 200-201 and 303: the whole buffer goes to the file
ArchiveFinish ==
  /\ pc = "write"
  /\ fs' = FileWrite(fs, args.output, buffer)
  /\ Exit(0, stdout \cup {"Done zipping"}, "none")
  /\ UNCHANGED <<pre, ran, args, writerVars, nof, readerVars>>

\* ------------------------------------------------------------- reader
\* the three magic bytes summed in a u8 (lines 96-105, 207-216): an
\* addition past 255 panics in a build with overflow checks and wraps in
\* one without
HeaderCheck(d, overflow_checks) ==
  LET b1 == ReadU8(d, 0)
      b2 == ReadU8(d, b1.pos)
      b3 == ReadU8(d, b2.pos)
      s2 == b1.val + b2.val
      s3 == (s2 % 256) + b3.val
  IN IF ~b1.ok \/ ~b2.ok THEN "eof"
     ELSE IF overflow_checks /\ s2 > 255 THEN "overflow"
     ELSE IF ~b3.ok THEN "eof"
     ELSE IF overflow_checks /\ s3 > 255 THEN "overflow"
     ELSE IF s3 % 256 # 138 THEN "invalid"
     ELSE "ok"

\* the version string and the count, each unwrapped (lines 107-108, 220-221)
HeaderRest(d) ==
  LET version == ReadString(d, 3)
      n == ReadU32(d, version.pos)
  IN [ok |-> version.ok /\ n.ok, nof |-> n.val, pos |-> n.pos]

NoReaderYet == \A i \in 1..Len(ran) : ran[i].mode = "archive"

\* --list: main, lines 93-112 and 160-163
ListStart(overflow_checks) ==
  /\ pc = "shell"
  /\ NoReaderYet
  /\ args' = [mode |-> "list", input |-> Name_okzip, output |-> Name_okzip]
  /\ ran' = Append(ran, args')
  /\ pre' = fs
  /\ index' = 0
  /\ cached' = EmptyMap
  /\ total_length' = 0
  /\ total_unpacked_length' = 0
  /\ skipped' = 0
  /\ UNCHANGED <<fs, writerVars>>
  /\ IF ~FsReadOk(fs, Name_okzip)
     THEN /\ Exit(1, {"could not read"}, "none")
          /\ UNCHANGED <<data, rpos, nof, og_nof>>
     ELSE LET d == FsRead(fs, Name_okzip)
              check == HeaderCheck(d, overflow_checks)
              rest == HeaderRest(d)
          IN /\ data' = d
             /\ IF check \in {"eof", "overflow"}
                THEN /\ Panic({}, check)
                     /\ UNCHANGED <<rpos, nof, og_nof>>
                ELSE IF check = "invalid"
                THEN /\ Exit(1, {"Invalid KZip header"}, "none")
                     /\ rpos' = 3
                     /\ UNCHANGED <<nof, og_nof>>
                ELSE IF ~rest.ok
                THEN /\ Panic({}, "eof")
                     /\ rpos' = rest.pos
                     /\ UNCHANGED <<nof, og_nof>>
                ELSE /\ pc' = "list_loop"
                     /\ rpos' = rest.pos
                     /\ nof' = rest.nof
                     /\ og_nof' = rest.nof
                     /\ exit_code' = -1
                     /\ stdout' = {}
                     /\ stderr' = "none"

\* one record of the list loop (lines 113-145): [kind, why, pos, packed,
\* unpacked]; kind "skip" is the record whose read_string failed
ListEntry(d, p) ==
  LET is_duplicate == ReadU8(d, p)
      file_name == ReadString(d, is_duplicate.pos)
      created_at == ReadU64(d, file_name.pos)
      modified == ReadU64(d, created_at.pos)
      ref == ReadU32(d, modified.pos)
      unpacked_length == ReadU64(d, modified.pos)
      length == ReadU64(d, unpacked_length.pos)
      bytes == ReadBytes(d, length.pos, length.val)
      out(kind, pos, packed, unpacked) ==
        [kind |-> kind, pos |-> pos, packed |-> packed, unpacked |-> unpacked]
  IN IF ~is_duplicate.ok THEN out("panic", p, 0, 0)
     ELSE IF ~file_name.ok THEN out("skip", file_name.pos, 0, 0)
     ELSE IF ~created_at.ok \/ ~modified.ok THEN out("panic", modified.pos, 0, 0)
     ELSE IF is_duplicate.val = 1
          THEN IF ~ref.ok THEN out("panic", ref.pos, 0, 0)
               ELSE out("ok", ref.pos, 0, 0)
     ELSE IF ~unpacked_length.ok \/ ~length.ok \/ ~bytes.ok
          THEN out("panic", bytes.pos, 0, 0)
     ELSE out("ok", bytes.pos, length.val, unpacked_length.val)

ListRecord ==
  /\ pc = "list_loop"
  /\ nof > 0
  /\ LET r == ListEntry(data, rpos) IN
     /\ rpos' = r.pos
     /\ total_length' = total_length + r.packed
     /\ total_unpacked_length' = total_unpacked_length + r.unpacked
     /\ IF r.kind = "panic"
        THEN /\ Panic(stdout, "eof")
             /\ UNCHANGED <<nof, skipped>>
        ELSE /\ nof' = nof - 1
             /\ skipped' = IF r.kind = "skip" THEN skipped + 1 ELSE skipped
             /\ stdout' = IF r.kind = "ok" THEN stdout \cup {"listed"} ELSE stdout
             /\ UNCHANGED <<pc, exit_code, stderr>>
  /\ UNCHANGED <<fs, pre, ran, args, writerVars, data, index, cached, og_nof>>

\* the totals (lines 147-159): the ratio is an integer division
ListTotals ==
  /\ pc = "list_loop"
  /\ nof = 0
  /\ IF total_length = 0
     THEN Panic(stdout \cup {"Total Files", "Total Packed Size",
                             "Total Unpacked Size"}, "divide by zero")
     ELSE Exit(0, stdout \cup {"Total Files", "Total Packed Size",
                               "Total Unpacked Size", "Compression"}, "none")
  /\ UNCHANGED <<fs, pre, ran, args, writerVars, nof, readerVars>>

\* the path a record is written to (lines 240-241, 250, 267-268, 277, 284)
ExtractedPath(output, file_name) == output \o SEP \o file_name

\* the directory made first (lines 242-247, 269-274)
DirNameOf(formatted_output) ==
  LET split_paths == Split(formatted_output) IN
  JoinSegs(SubSeq(split_paths, 1, Len(split_paths) - 1))

\* create_dir_if_not_exists, File::create(..).unwrap(), file.write
WriteOut(f, output, file_name, content) ==
  LET formatted_output == ExtractedPath(output, file_name)
      dir_name == DirNameOf(formatted_output)
      f1 == CreateDir(f, dir_name)
  IN IF CreateDirOutcome(f, dir_name) = "exit" THEN [kind |-> "exit", fs |-> f]
     ELSE IF ~FileCreateOk(f1, formatted_output) THEN [kind |-> "panic", fs |-> f1]
     ELSE [kind |-> "ok",
           fs |-> FileWrite(FileCreate(f1, formatted_output), formatted_output,
                            content)]

\* a reader that registers a path after advancing its index
CacheInsertAfterIncrement(cch, idx, path) == (idx + 1 :> path) @@ cch

\* cached.insert(index, path) (lines 282-285)
CacheInsert(cch, idx, path) == (idx :> path) @@ cch

\* one record of the extract loop (lines 224-291)
ExtractEntry(f, d, p, idx, cch, output) ==
  LET is_duplicate == ReadU8(d, p)
      file_name == ReadString(d, is_duplicate.pos)
      created_at == ReadU64(d, file_name.pos)
      modified == ReadU64(d, created_at.pos)
      saved_index == ReadU32(d, modified.pos)
      unpacked_length == ReadU64(d, modified.pos)
      length == ReadU64(d, unpacked_length.pos)
      bytes == ReadBytes(d, length.pos, length.val)
      out(kind, why, pos, g, i, c) ==
        [kind |-> kind, why |-> why, pos |-> pos, fs |-> g, index |-> i,
         cached |-> c]
  IN IF ~is_duplicate.ok THEN out("panic", "eof", p, f, idx, cch)
     ELSE IF ~file_name.ok THEN out("skip", "none", file_name.pos, f, idx, cch)
     ELSE IF ~created_at.ok \/ ~modified.ok
          THEN out("panic", "eof", modified.pos, f, idx, cch)
     ELSE IF is_duplicate.val = 1
          THEN IF ~saved_index.ok
               THEN out("panic", "eof", saved_index.pos, f, idx, cch)
               ELSE IF saved_index.val \notin DOMAIN cch
               THEN out("panic", "cache miss", saved_index.pos, f, idx, cch)
               ELSE IF ~FsReadOk(f, cch[saved_index.val])
               THEN out("panic", "read", saved_index.pos, f, idx, cch)
               ELSE LET w == WriteOut(f, output, file_name.val,
                                      FsRead(f, cch[saved_index.val]))
                    IN out(IF w.kind = "ok" THEN "dup" ELSE w.kind,
                           IF w.kind = "panic" THEN "create" ELSE "none",
                           saved_index.pos, w.fs, idx, cch)
     ELSE IF ~unpacked_length.ok \/ ~length.ok \/ ~bytes.ok
          THEN out("panic", "eof", bytes.pos, f, idx, cch)
     ELSE IF ~DecodeOk(bytes.val)
          THEN out("panic", "decompress", bytes.pos, f, idx, cch)
     ELSE LET w == WriteOut(f, output, file_name.val,
                            Decode(bytes.val, unpacked_length.val))
          IN IF w.kind = "ok"
             THEN out("ok", "none", bytes.pos, w.fs, idx + 1,
                      CacheInsert(cch, idx, ExtractedPath(output, file_name.val)))
             ELSE out(w.kind, IF w.kind = "panic" THEN "create" ELSE "none",
                      bytes.pos, w.fs, idx, cch)

\* --extract: main, lines 202-222 and 297-300
ExtractStart(overflow_checks) ==
  /\ pc = "shell"
  /\ NoReaderYet
  /\ args' = [mode |-> "extract", input |-> Name_okzip, output |-> Name_out]
  /\ ran' = Append(ran, args')
  /\ pre' = fs
  /\ index' = 0
  /\ cached' = EmptyMap
  /\ total_length' = 0
  /\ total_unpacked_length' = 0
  /\ skipped' = 0
  /\ UNCHANGED writerVars
  /\ IF ~FsReadOk(fs, Name_okzip)
     THEN /\ Exit(1, {"Could not open kzip file"}, "none")
          /\ UNCHANGED <<fs, data, rpos, nof, og_nof>>
     ELSE LET d == FsRead(fs, Name_okzip)
              check == HeaderCheck(d, overflow_checks)
              rest == HeaderRest(d)
          IN /\ data' = d
             /\ IF check \in {"eof", "overflow"}
                THEN /\ Panic({}, check)
                     /\ UNCHANGED <<fs, rpos, nof, og_nof>>
                ELSE IF check = "invalid"
                THEN /\ Exit(1, {"Invalid KZip header"}, "none")
                     /\ rpos' = 3
                     /\ UNCHANGED <<fs, nof, og_nof>>
                ELSE IF CreateDirOutcome(fs, Name_out) = "exit"
                THEN /\ Exit(1, {"There was an error"}, "none")
                     /\ rpos' = 3
                     /\ UNCHANGED <<fs, nof, og_nof>>
                ELSE IF ~rest.ok
                THEN /\ Panic({}, "eof")
                     /\ fs' = CreateDir(fs, Name_out)
                     /\ rpos' = rest.pos
                     /\ UNCHANGED <<nof, og_nof>>
                ELSE /\ pc' = "extract_loop"
                     /\ fs' = CreateDir(fs, Name_out)
                     /\ rpos' = rest.pos
                     /\ nof' = rest.nof
                     /\ og_nof' = rest.nof
                     /\ exit_code' = -1
                     /\ stdout' = {"Number of files"}
                     /\ stderr' = "none"

ExtractRecord ==
  /\ pc = "extract_loop"
  /\ nof > 0
  /\ LET r == ExtractEntry(fs, data, rpos, index, cached, args.output) IN
     /\ rpos' = r.pos
     /\ fs' = r.fs
     /\ index' = r.index
     /\ cached' = r.cached
     /\ IF r.kind = "panic"
        THEN /\ Panic(stdout, r.why)
             /\ UNCHANGED <<nof, skipped>>
        ELSE IF r.kind = "exit"
        THEN /\ Exit(1, stdout \cup {"There was an error"}, "none")
             /\ UNCHANGED <<nof, skipped>>
        ELSE /\ nof' = nof - 1
             /\ skipped' = IF r.kind = "skip" THEN skipped + 1 ELSE skipped
             /\ stdout' = IF r.kind = "ok" THEN stdout \cup {"Unzipped"}
                          ELSE IF r.kind = "dup"
                          THEN stdout \cup {"Unzipped duplicate file"}
                          ELSE stdout
             /\ UNCHANGED <<pc, exit_code, stderr>>
  /\ UNCHANGED <<pre, ran, args, writerVars, data, total_length,
                 total_unpacked_length, og_nof>>

\* lines 296 and 303
ExtractDone ==
  /\ pc = "extract_loop"
  /\ nof = 0
  /\ Exit(0, stdout \cup {"Done unzipping"}, "none")
  /\ UNCHANGED <<fs, pre, ran, args, writerVars, nof, readerVars>>

\* ------------------------------------------------------ specification
Next ==
  \/ \E input \in ArchiveInputs, out_arg \in ArchiveOutputs :
       ArchiveStart(input, out_arg)
  \/ ReadDirEntry
  \/ ReadDirReturn
  \/ ArchiveFinish
  \/ \E overflow_checks \in BOOLEAN : ListStart(overflow_checks)
  \/ ListRecord
  \/ ListTotals
  \/ \E overflow_checks \in BOOLEAN : ExtractStart(overflow_checks)
  \/ ExtractRecord
  \/ ExtractDone

Spec == Init /\ [][Next]_vars

\* ---------------------------------------- the format of section 6, decoded
\* one entry record at position p of d, as the layout gives it
RecordAt(d, p) ==
  LET flag == ReadU8(d, p)
      path == ReadString(d, flag.pos)
      created_at == ReadU64(d, path.pos)
      modified_at == ReadU64(d, created_at.pos)
      reference_index == ReadU32(d, modified_at.pos)
      raw_size == ReadU64(d, modified_at.pos)
      stored_size == ReadU64(d, raw_size.pos)
      payload == ReadBytes(d, stored_size.pos, stored_size.val)
      common == flag.ok /\ path.ok /\ created_at.ok /\ modified_at.ok
  IN IF common /\ flag.val = 1
     THEN [ok |-> reference_index.ok, dup |-> TRUE, path |-> path.val,
           index |-> reference_index.val, raw_size |-> 0, payload |-> <<>>,
           pos |-> reference_index.pos]
     ELSE [ok |-> common /\ raw_size.ok /\ stored_size.ok /\ payload.ok,
           dup |-> FALSE, path |-> path.val, index |-> 0,
           raw_size |-> raw_size.val, payload |-> payload.val,
           pos |-> payload.pos]

\* the records of d from position p on, up to the end or the first bad one
RECURSIVE RecordsFrom(_, _)
RecordsFrom(d, p) ==
  IF p >= Len(d) THEN <<>>
  ELSE LET r == RecordAt(d, p) IN
       IF ~r.ok THEN <<>> ELSE <<r>> \o RecordsFrom(d, r.pos)

\* the records after the header of an archive (empty for a file too short)
RecordsOf(d) ==
  LET h == HeaderRest(d) IN IF h.ok THEN RecordsFrom(d, h.pos) ELSE <<>>

\* the Unique records among the first i - 1
UniquesBefore(recs, i) == Cardinality({ j \in 1..(i - 1) : ~recs[j].dup })

Min(S) == CHOOSE x \in S : \A y \in S : x <= y

\* the records the writer has put in its buffer so far
Written == RecordsOf(buffer)

\* the path of the Unique record with ordinal k
UniquePath(recs, k) ==
  recs[CHOOSE i \in 1..Len(recs) : ~recs[i].dup /\ UniquesBefore(recs, i) = k].path

\* the files below root, each as <<path from root, content>>
RelFiles(f, root) ==
  { <<SubSeq(p, Len(root) + 1, Len(p)), f.files[p].content>> :
      p \in { q \in DOMAIN f.files : Len(q) > Len(root) /\ IsPrefix(root, q) } }

\* the last command read an archive that the command before it wrote
ReadsWrittenArchive ==
  /\ Len(ran) = 2
  /\ ran[1].mode = "archive"
  /\ ran[2].mode \in {"list", "extract"}

\* ------------------------------------------------------------- claims

\* C1: archiving the directory T and extracting the archive into out gives
\* below out exactly the relative paths of T, each with the content it has
\* in T.
RoundTrip ==
  (pc = "shell" /\ ReadsWrittenArchive /\ ran[1].input = Name_T
     /\ ran[2].mode = "extract")
    => /\ exit_code = 0
       /\ RelFiles(fs, <<Name_out>>) = RelFiles(fs, <<Name_T>>)

\* C2: in one session a file is written as a DuplicateRef exactly when an
\* earlier file of the session has the same content; a Unique record is
\* registered with the number of Unique records before it, a DuplicateRef
\* carries the ordinal of the first (Unique) record of its content, and no
\* content has two Unique records.
DedupIndex ==
  args.mode = "archive" =>
    LET recs == Written IN
    /\ Len(recs) = Len(session)
    /\ \A i \in 1..Len(recs) :
         LET earlier == { j \in 1..(i - 1) :
                            session[j].content = session[i].content }
         IN /\ recs[i].dup <=> earlier # {}
            /\ recs[i].dup =>
                 /\ ~recs[Min(earlier)].dup
                 /\ recs[i].index = UniquesBefore(recs, Min(earlier))
            /\ ~recs[i].dup =>
                 /\ Digest(session[i].content) \in DOMAIN hashes
                 /\ hashes[Digest(session[i].content)] = UniquesBefore(recs, i)
    /\ \A i, j \in 1..Len(recs) :
         (~recs[i].dup /\ ~recs[j].dup /\ session[i].content = session[j].content)
           => i = j

\* a session of three files: two contents, then the second one again
DedupIndexWitness ==
  /\ pc = "shell"
  /\ args.mode = "archive"
  /\ Len(Written) = 3
  /\ ~Written[1].dup /\ ~Written[2].dup
  /\ Written[3].dup /\ Written[3].index = 1

\* C3: every DuplicateRef the writer emits refers to an ordinal below the
\* number of Unique records before it, and when the reader extracts an
\* archive the writer made, no lookup of a DuplicateRef misses: the cache
\* holds, under each ordinal, the path the Unique record of that ordinal
\* was extracted to.
NoForwardReferences ==
  /\ args.mode = "archive" =>
       LET recs == Written IN
       \A i \in 1..Len(recs) :
         recs[i].dup => recs[i].index < UniquesBefore(recs, i)
  /\ (ReadsWrittenArchive /\ args.mode = "extract") =>
       LET recs == RecordsOf(data) IN
       /\ stderr # "cache miss"
       /\ DOMAIN cached = 0..(index - 1)
       /\ \A k \in DOMAIN cached :
            cached[k] = ExtractedPath(args.output, UniquePath(recs, k))

\* the reader has extracted a DuplicateRef of an archive the writer made
NoForwardReferencesWitness ==
  /\ ReadsWrittenArchive
  /\ args.mode = "extract"
  /\ "Unzipped duplicate file" \in stdout
  /\ exit_code = 0
  /\ \E i \in 1..Len(Written) : Written[i].dup

\* C4: an archive whose first three bytes do not sum to 138 makes list and
\* extract end with a non-zero exit code before any record is parsed and
\* with nothing created.  (The formula takes the overflow panic of a build
\* with overflow checks for a rejection too, so that what violates it is an
\* archive the reader goes on to read.)
HeaderValidation ==
  (args.mode \in {"list", "extract"} /\ Len(data) >= 3
     /\ data[1] + data[2] + data[3] # 138)
    => /\ pc = "shell"
       /\ exit_code \in {1, 101}
       /\ "Invalid KZip header" \in stdout \/ stderr = "overflow"
       /\ rpos <= 3
       /\ fs = pre

\* C5: extract creates or changes nothing outside the output directory.
PathSafety ==
  args.mode = "extract" =>
    /\ \A p \in DOMAIN fs.files :
         (p \notin DOMAIN pre.files \/ fs.files[p] # pre.files[p])
           => (Len(p) > Len(Resolve(args.output))
                 /\ IsPrefix(Resolve(args.output), p))
    /\ \A p \in fs.dirs \ pre.dirs : IsPrefix(Resolve(args.output), p)

\* C6: once a field of a record has failed to decode, the read does not
\* end in success.
ParseFailuresFatal ==
  (args.mode \in {"list", "extract"} /\ skipped > 0 /\ pc = "shell")
    => /\ exit_code # 0
       /\ "Done unzipping" \notin stdout
       /\ "Compression" \notin stdout

\* C7: listing a valid archive whose packed sizes sum to 0 ends normally,
\* with the totals and the ratio reported.
ListZeroTotal ==
  (args.mode = "list" /\ pc = "shell" /\ "Total Files" \in stdout
     /\ skipped = 0 /\ total_length = 0)
    => /\ exit_code = 0
       /\ "Compression" \in stdout

\* C8: a file that exists at the archive's path when archiving starts keeps
\* its content.
OutputCollision ==
  (args.mode = "archive" /\ IsFile(pre, Resolve(args.output)))
    => fs.files[Resolve(args.output)].content
         = pre.files[Resolve(args.output)].content

\* C9: the entry_count in the header of a finished archive is the number
\* of records that follow it.
HeaderCountMatchesRecords ==
  (args.mode = "archive" /\ pc = "shell" /\ exit_code = 0)
    => LET d == fs.files[Resolve(args.output)].content IN
       /\ HeaderRest(d).ok
       /\ HeaderRest(d).nof = Len(RecordsOf(d))
       /\ Len(RecordsOf(d)) = Len(session)

\* C10: once an input file has been read, the header is in the output
\* file, and so is every record but the one built last.
StreamingWrite ==
  (args.mode = "archive" /\ pc = "walk" /\ Len(session) >= 1)
    => LET d == fs.files[Resolve(args.output)].content IN
       /\ IsPrefix(ArchiveHeader(nof), d)
       /\ Len(RecordsOf(d)) >= Len(session) - 1

====
